---- MODULE Spec2Model ----
(***************************************************************************)
(* A model of the grid query code of buoy-validation:                      *)
(*   src/libs/satellite.py   (class Satellite, class SatelliteDataPoint)   *)
(*   src/print_sat_data.py   (the CLI script's module-level functions)     *)
(*                                                                         *)
(* Numbers.  Coordinates are fixed-point integers ("units").  A value that *)
(* single precision can hold is a multiple of Quantum; the arrays of a     *)
(* grid file hold such values, a query coordinate is any integer (a Python *)
(* float).  Indexes are Python's, counted from 0.  Temperatures are in     *)
(* hundredths of a kelvin.  A mean is kept exact, as sum and count.        *)
(***************************************************************************)
EXTENDS Integers, Sequences, FiniteSets, TLC

\* ------------------------------------------------------------- bounds
\* Spacing of the single-precision values, in units.
Quantum == 2
\* Units per degree of arc (the scale of the fixed-point coordinates).
UnitsPerDegree == 20
\* How far outside the cell centres a query coordinate may lie, in quanta.
QueryMargin == 2

\* ---------------------------------------------------- program constants
\* ZERO_CELCIUS_IN_KELVIN = 273.15, in hundredths of a kelvin.
ZERO_CELCIUS_IN_KELVIN == 27315
\* analysed_sst_smooth_radius_km=25, the default of get_analysed_sst_smooth.
DefaultRadiusKm == 25
\* One degree of latitude in kilometres (coordinatehelper, spec 4.1).
KmPerDegree == 111

\* ------------------------------------------------------------- values
\* numpy.ma.masked, the value of a cell whose mask is set.
Masked == [kind |-> "masked"]
\* float('nan')
NaN == [kind |-> "nan"]
\* Python's None
None == [kind |-> "None"]
\* A number num/den (den > 0); a cell value has den = 1.
Num(n, d) == [kind |-> "num", num |-> n, den |-> d]
\* A datetime, as seconds since 1981-01-01.
TimeVal(s) == [kind |-> "time", secs |-> s]

Abs(x) == IF x < 0 THEN -x ELSE x

\* Python's 0-based indexing of a sequence.
At(arr, i) == arr[i + 1]
Indexes(arr) == 0 .. (Len(arr) - 1)

RECURSIVE SeqMin(_)
SeqMin(s) ==
    IF Len(s) = 1 THEN s[1]
    ELSE LET m == SeqMin(Tail(s)) IN IF s[1] <= m THEN s[1] ELSE m

RECURSIVE SeqMax(_)
SeqMax(s) ==
    IF Len(s) = 1 THEN s[1]
    ELSE LET m == SeqMax(Tail(s)) IN IF s[1] >= m THEN s[1] ELSE m

\* np.float32(value): the nearest single-precision value, ties to the even one.
F32(v) ==
    LET lo == (v \div Quantum) * Quantum
        hi == lo + Quantum
        r  == v - lo
    IN  IF r = 0 THEN v
        ELSE IF 2 * r < Quantum THEN lo
        ELSE IF 2 * r > Quantum THEN hi
        ELSE IF (lo \div Quantum) % 2 = 0 THEN lo ELSE hi

\* argmin returning the last index holding the minimum.
ArgMin_Last(d) ==
    CHOOSE i \in Indexes(d) :
        /\ \A k \in Indexes(d) : At(d, i) <= At(d, k)
        /\ \A k \in Indexes(d) : k > i => At(d, k) > At(d, i)

\* ndarray.argmin(): the first index holding the minimum.
ArgMin(d) ==
    CHOOSE i \in Indexes(d) :
        /\ \A k \in Indexes(d) : At(d, i) <= At(d, k)
        /\ \A k \in Indexes(d) : k < i => At(d, k) > At(d, i)

\* ------------------------------------------------------------ the grid file
\* The land/sea mask variable 'mask' (bit 0 set: water), in three layouts:
\* all water, all land, mixed.
SeaAt(sp, i, j) ==
    IF sp = 1 THEN 1 ELSE IF sp = 2 THEN 2 ELSE (i * j + 1) % 4

\* The missing-value mask of analysed_sst, in three layouts: nothing missing,
\* a diagonal missing, everything missing.
SstMissingAt(mp, i, j) ==
    IF mp = 1 THEN FALSE ELSE IF mp = 2 THEN (i + j) % 3 = 1 ELSE TRUE

\* analysed_sst in hundredths of a kelvin; cell (1, 0) is exactly 0 degrees Celsius.
SstAt(i, j) == ZERO_CELCIUS_IN_KELVIN + 50 * (i - 1) + 10 * j

\* A second data variable with a missing-value mask of its own.
ErrMissingAt(i, j) == (i + j) % 2 = 1
ErrAt(i, j) == 10 + i + j

LatAscending  == << 0, 3 * Quantum, 6 * Quantum >>
LatDescending == << 6 * Quantum, 3 * Quantum, 0 >>
LonRepeated   == << 0, 3 * Quantum, 3 * Quantum, 6 * Quantum >>
LonShort      == << 0, 3 * Quantum >>

\* One opened grid file: netCDF4.Dataset(input_filename).
GridFile(latArr, lonArr, sp, mp, withMask) ==
    [ lat |-> latArr,
      lon |-> lonArr,
      geospatial_lat_resolution |-> 3 * Quantum,
      geospatial_lon_resolution |-> 3 * Quantum,
      time |-> 1000,
      names |-> {"lat", "lon", "time", "analysed_sst", "analysis_error"}
                   \cup (IF withMask THEN {"mask"} ELSE {}),
      analysed_sst |-> [i \in Indexes(latArr) |-> [j \in Indexes(lonArr) |->
                          [v |-> SstAt(i, j), m |-> SstMissingAt(mp, i, j)]]],
      analysis_error |-> [i \in Indexes(latArr) |-> [j \in Indexes(lonArr) |->
                          [v |-> ErrAt(i, j), m |-> ErrMissingAt(i, j)]]],
      mask |-> [i \in Indexes(latArr) |-> [j \in Indexes(lonArr) |-> SeaAt(sp, i, j)]] ]

GridFiles ==
    { GridFile(LatAscending,  LonRepeated, 3, 2, TRUE),
      GridFile(LatDescending, LonShort,    1, 1, TRUE),
      GridFile(LatAscending,  LonShort,    2, 1, TRUE),
      GridFile(LatDescending, LonRepeated, 3, 3, TRUE),
      GridFile(LatAscending,  LonShort,    1, 2, FALSE) }

\* The query coordinates tried: every unit from QueryMargin quanta below the
\* lowest cell centre to QueryMargin quanta above the highest.
Coordinates == (0 - QueryMargin * Quantum) .. (6 * Quantum + QueryMargin * Quantum)

\* ------------------------------------------------------------------ state
VARIABLES
    nc,            \* the grid file the run is about
    pc,            \* the statement the run is at; "idle" before the call
    nc_open,       \* how many datasets are open
    lat, lon,      \* the coordinate of the running call
    ranges,        \* what get_lat_lon_ranges returned, in half units
    lat_index, lon_index,
    exc,           \* the exception the call raised, "none" if none
    log,           \* the checks and searches the call did, in order
    data_point,    \* SatelliteDataPoint.data
    args,          \* the other arguments of the running call
    result         \* what the call returned

vars == << nc, pc, nc_open, lat, lon, ranges, lat_index, lon_index, exc, log,
           data_point, args, result >>

NoArgs == [op |-> "none"]

Init ==
    /\ nc \in GridFiles
    /\ pc = "idle"
    /\ nc_open = 0
    /\ lat = 0 /\ lon = 0
    /\ ranges = << >>
    /\ lat_index = -1 /\ lon_index = -1
    /\ exc = "none"
    /\ log = << >>
    /\ data_point = << >>
    /\ args = NoArgs
    /\ result = None

\* ------------------------------------------------- libs/satellite.py: locate
\* get_lat_lon_ranges with a whole cell added at each edge (the /2.0 left out).
Sat_get_lat_lon_ranges_WholeCell(g) ==
    << << 2 * SeqMin(g.lat) - 2 * g.geospatial_lat_resolution,
          2 * SeqMax(g.lat) + 2 * g.geospatial_lat_resolution >>,
       << 2 * SeqMin(g.lon) - 2 * g.geospatial_lon_resolution,
          2 * SeqMax(g.lon) + 2 * g.geospatial_lon_resolution >> >>

\* Satellite.get_lat_lon_ranges, in half units: [2*min - res, 2*max + res] stands
\* for [min - res/2.0, max + res/2.0].
Sat_get_lat_lon_ranges(g) ==
    << << 2 * SeqMin(g.lat) - g.geospatial_lat_resolution,
          2 * SeqMax(g.lat) + g.geospatial_lat_resolution >>,
       << 2 * SeqMin(g.lon) - g.geospatial_lon_resolution,
          2 * SeqMax(g.lon) + g.geospatial_lon_resolution >> >>

\* InRange with the upper bound left unchecked.
InRange_NoUpperBound(r, x) == r[1] <= 2 * x

\* lats[0] <= lat <= lats[1], on a range in half units.
InRange(r, x) == r[1] <= 2 * x /\ 2 * x <= r[2]

\* Satellite.get_index_of_closest_float_value:
\* abs((self.nc.variables[variable_name] - np.float32(value))).argmin()
get_index_of_closest_float_value(arr, value) ==
    ArgMin([k \in 1 .. Len(arr) |-> Abs(arr[k] - F32(value))])

\* Satellite.__init__: self.nc = netCDF4.Dataset(self.input_filename)
SatInit ==
    /\ pc = "idle"
    /\ pc' = "sat_ready"
    /\ nc_open' = nc_open + 1
    /\ UNCHANGED << nc, lat, lon, ranges, lat_index, lon_index, exc, log,
                    data_point, args, result >>

\* Satellite.data(lat, lon) up to the first statement of
\* get_closest_lat_lon_indexes: lats, lons = self.get_lat_lon_ranges()
SatData ==
    /\ pc = "sat_ready"
    /\ \E la \in Coordinates, lo \in Coordinates : lat' = la /\ lon' = lo
    /\ ranges' = Sat_get_lat_lon_ranges(nc)
    /\ args' = [op |-> "Satellite.data"]
    /\ pc' = "sat_check_lat"
    /\ UNCHANGED << nc, nc_open, lat_index, lon_index, exc, log, data_point, result >>

\* if not lats[0] <= lat <= lats[1]: raise SatDataException("Latitude ...")
SatCheckLat ==
    /\ pc = "sat_check_lat"
    /\ log' = Append(log, "check_lat")
    /\ IF InRange(ranges[1], lat)
       THEN pc' = "sat_check_lon" /\ exc' = exc
       ELSE pc' = "sat_raised" /\ exc' = "SatDataException: Latitude"
    /\ UNCHANGED << nc, nc_open, lat, lon, ranges, lat_index, lon_index,
                    data_point, args, result >>

\* if not lons[0] <= lon <= lons[1]: raise SatDataException("Longitude ...")
SatCheckLon ==
    /\ pc = "sat_check_lon"
    /\ log' = Append(log, "check_lon")
    /\ IF InRange(ranges[2], lon)
       THEN pc' = "sat_search" /\ exc' = exc
       ELSE pc' = "sat_raised" /\ exc' = "SatDataException: Longitude"
    /\ UNCHANGED << nc, nc_open, lat, lon, ranges, lat_index, lon_index,
                    data_point, args, result >>

\* lat_index = self.get_index_of_closest_float_value('lat', lat)
\* lon_index = self.get_index_of_closest_float_value('lon', lon)
SatSearch ==
    /\ pc = "sat_search"
    /\ lat_index' = get_index_of_closest_float_value(nc.lat, lat)
    /\ lon_index' = get_index_of_closest_float_value(nc.lon, lon)
    /\ log' = log \o << "argmin_lat", "argmin_lon" >>
    /\ pc' = "sat_located"
    /\ UNCHANGED << nc, nc_open, lat, lon, ranges, exc, data_point, args, result >>

\* ----------------------------------------------- coordinatehelper (not in src/)
\* km_2_lats: degrees = km / 111.0, here in units.
km_2_lats(km) == (km * UnitsPerDegree) \div KmPerDegree

\* cos of a latitude given in units, in thousandths (1 - x^2/2 for the small
\* angles of the grids modelled).
CosMilli(la) == 1000 - (152 * la * la) \div (1000 * UnitsPerDegree * UnitsPerDegree)

\* km_2_lons: degrees = km / (111.0 * cos(lat)), here in units.
km_2_lons(km, la) == (km * UnitsPerDegree * 1000) \div (KmPerDegree * CosMilli(la))

\* ------------------------------------------- libs/satellite.py: the average
\* One element of a masked variable read at [0][i][j]: numpy.ma.masked when the
\* element's mask is set, the number otherwise.
Cell(var, i, j) == IF var[i][j].m THEN Masked ELSE Num(var[i][j].v, 1)

\* float(x): numpy converts a masked element to nan (with a warning).
PyFloat(x) == IF x = Masked THEN NaN ELSE x

\* A subtraction that takes a masked operand for the number 0.
Minus_MaskedAsZero(x, k) ==
    IF x.kind = "num" THEN Num(x.num - k * x.den, x.den)
    ELSE IF x.kind = "masked" THEN Num(0 - k, 1) ELSE x

\* x - k for a number, numpy.ma.masked (stays masked) or nan (stays nan).
Minus(x, k) ==
    IF x.kind = "num" THEN Num(x.num - k * x.den, x.den) ELSE x

\* (lat[:] >= lat-delta_lat) & (lat[:] <= lat+delta_lat)
LatMask(g, la, delta_lat) ==
    [k \in 1 .. Len(g.lat) |-> g.lat[k] >= la - delta_lat /\ g.lat[k] <= la + delta_lat]

\* The longitude window with its bounds included, like the latitude window.
LonMask_Inclusive(g, lo, delta_lon) ==
    [k \in 1 .. Len(g.lon) |-> g.lon[k] >= lo - delta_lon /\ g.lon[k] <= lo + delta_lon]

\* (lon[:] > lon-delta_lon) & (lon[:] < lon+delta_lon)
LonMask(g, lo, delta_lon) ==
    [k \in 1 .. Len(g.lon) |-> g.lon[k] > lo - delta_lon /\ g.lon[k] < lo + delta_lon]

\* [i&j for i in lat_mask for j in lon_mask]: one flat list, lat_mask outermost.
FlatProduct(lat_mask, lon_mask) ==
    [n \in 1 .. (Len(lat_mask) * Len(lon_mask)) |->
        lat_mask[((n - 1) \div Len(lon_mask)) + 1] /\ lon_mask[((n - 1) % Len(lon_mask)) + 1]]

\* np.reshape(flat, (rows, cols)): row-major.
Reshape(flat, rows, cols) ==
    [i \in 0 .. (rows - 1) |-> [j \in 0 .. (cols - 1) |-> flat[i * cols + j + 1]]]

\* np.array(self.nc.variables['mask'][0] & 1, dtype=bool)
SeaMask(g) ==
    [i \in Indexes(g.lat) |-> [j \in Indexes(g.lon) |-> (g.mask[i][j] % 2) = 1]]

\* data.mask = ~resulting_mask | data.mask, with
\* resulting_mask = lat_lon_mask & sea_mask
SmoothDataMask(g, la, lo, radius_km) ==
    LET lat_mask     == LatMask(g, la, km_2_lats(radius_km))
        lon_mask     == LonMask(g, lo, km_2_lons(radius_km, la))
        lat_lon_mask == Reshape(FlatProduct(lat_mask, lon_mask), Len(lat_mask), Len(lon_mask))
        sea_mask     == SeaMask(g)
    IN  [i \in Indexes(g.lat) |-> [j \in Indexes(g.lon) |->
            (~(lat_lon_mask[i][j] /\ sea_mask[i][j])) \/ g.analysed_sst[i][j].m]]

RECURSIVE SumOver(_, _)
SumOver(var, cells) ==
    IF cells = {} THEN 0
    ELSE LET c == CHOOSE x \in cells : TRUE
         IN  var[c[1]][c[2]].v + SumOver(var, cells \ {c})

\* MaskedArray.mean(): the mean of the elements whose mask is clear,
\* numpy.ma.masked when there is none.
MaskedMean(var, mask) ==
    LET kept == { c \in (DOMAIN mask) \X (UNION { DOMAIN mask[i] : i \in DOMAIN mask }) :
                    ~mask[c[1]][c[2]] }
    IN  IF kept = {} THEN Masked ELSE Num(SumOver(var, kept), Cardinality(kept))

\* Satellite.get_analysed_sst_smooth(lat, lon, analysed_sst_smooth_radius_km)
get_analysed_sst_smooth(g, la, lo, radius_km) ==
    MaskedMean(g.analysed_sst, SmoothDataMask(g, la, lo, radius_km))

\* get_variable_names with the land/sea mask variable left out.
Sat_get_variable_names_NoMask(g) == (g.names \ {"mask"}) \cup {"analysed_sst_smooth"}

\* Satellite.get_variable_names: the file's variables and "analysed_sst_smooth".
Sat_get_variable_names(g) == g.names \cup {"analysed_sst_smooth"}

\* The body of the loop of Satellite.data: the value appended for one variable.
DataValue(g, variable_name, la, lo, i, j) ==
    IF variable_name = "lat" THEN Num(At(g.lat, i), 1)
    ELSE IF variable_name = "lon" THEN Num(At(g.lon, j), 1)
    ELSE IF variable_name = "time" THEN TimeVal(g.time)
    ELSE IF variable_name = "analysed_sst"
         THEN Minus(PyFloat(Cell(g.analysed_sst, i, j)), ZERO_CELCIUS_IN_KELVIN)
    ELSE IF variable_name = "analysed_sst_smooth"
         THEN Minus(get_analysed_sst_smooth(g, la, lo, DefaultRadiusKm), ZERO_CELCIUS_IN_KELVIN)
    ELSE IF variable_name = "mask" THEN Num(g.mask[i][j], 1)
    ELSE Cell(g[variable_name], i, j)

\* The loop of Satellite.data over get_variable_names(). get_analysed_sst_smooth
\* reads self.nc.variables['mask']: a KeyError when the file has no such variable.
SatFill ==
    /\ pc = "sat_located"
    /\ IF "mask" \in nc.names
       THEN /\ data_point' = [n \in Sat_get_variable_names(nc) |->
                                 DataValue(nc, n, lat, lon, lat_index, lon_index)]
            /\ pc' = "sat_returned"
            /\ exc' = exc
       ELSE /\ data_point' = data_point
            /\ pc' = "sat_raised"
            /\ exc' = "KeyError: mask"
    /\ UNCHANGED << nc, nc_open, lat, lon, ranges, lat_index, lon_index, log, args, result >>

\* --------------------------------- libs/satellite.py: SatelliteDataPoint.filter
\* A field of the order list: the text name, or name ":" option.
Field(name) == [name |-> name, colon |-> FALSE, option |-> ""]
FieldOpt(name, option) == [name |-> name, colon |-> TRUE, option |-> option]

\* A local variable that no statement has assigned yet, and a Python str.
Unbound == [kind |-> "unbound"]
Str(text) == [kind |-> "str", text |-> text]

\* hasattr(value, "mask"): of the values of a data point only numpy.ma.masked
\* has a mask (a float, a numpy scalar and a datetime have none).
HasMaskAttr(value) == value = Masked

\* The test the loop over self.data is written to make on a value:
\* hasattr(value, "mask") and value.mask
IsMissing(value) == HasMaskAttr(value) /\ value = Masked

\* datetimehelper and filterhelper (not in src/): the texts they produce.
DEFAULT_DATE_FORMAT_MIN == "DEFAULT_DATE_FORMAT_MIN"
date2julian(t) == [kind |-> "julian", secs |-> t.secs]
strftime(t, pattern) == [kind |-> "strftime", secs |-> t.secs, pattern |-> pattern]
Format(value) == [kind |-> "text", of |-> value]

\* The loop "for key, value in self.data.iteritems()": its condition reads the
\* name variable, which is bound nowhere in the function or the module, so the
\* first iteration with ignore_point_if_missing set raises NameError.
MissingLoop(data, ignore_point_if_missing) ==
    IF ignore_point_if_missing /\ DOMAIN data # {}
    THEN "NameError: variable"
    ELSE "none"

\* The loop "for key in order", from element k on. extra is the local
\* extra_filter_option, values the list built so far.
RECURSIVE OrderLoop(_, _, _, _, _)
OrderLoop(data, order, k, extra, values) ==
    IF k > Len(order) THEN [exc |-> "none", values |-> values]
    ELSE
      LET key    == order[k].name
          extra2 == IF order[k].colon THEN Str(order[k].option) ELSE extra
      IN  IF key = "time" \/ key = "dummy"
          THEN IF extra2 = Unbound
               THEN [exc |-> "UnboundLocalError: extra_filter_option", values |-> values]
               ELSE IF key = "dummy"
               THEN OrderLoop(data, order, k + 1, extra2, Append(values, extra2))
               ELSE IF "time" \notin DOMAIN data
               THEN [exc |-> "KeyError", values |-> values]
               ELSE IF extra2 = Str("julian")
               THEN OrderLoop(data, order, k + 1, extra2,
                              Append(values, date2julian(data["time"])))
               ELSE IF extra2 # Str("")
               THEN OrderLoop(data, order, k + 1, extra2,
                              Append(values, strftime(data["time"], extra2.text)))
               ELSE OrderLoop(data, order, k + 1, extra2,
                              Append(values, strftime(data["time"], DEFAULT_DATE_FORMAT_MIN)))
          ELSE IF key \notin DOMAIN data
               THEN [exc |-> "KeyError", values |-> values]
               ELSE OrderLoop(data, order, k + 1, extra2, Append(values, data[key]))

\* order == None: every stored value, "time" with the default pattern. The
\* dict gives the keys in an order of its own, so the texts are kept by key.
AllValues(data) ==
    [key \in DOMAIN data |->
        IF key = "time" THEN Format(strftime(data[key], DEFAULT_DATE_FORMAT_MIN))
        ELSE Format(data[key])]

\* filter with the values list built back to front (values.insert(0, ...)).
filter_Reversed(data, order, ignore_point_if_missing) ==
    LET missing == MissingLoop(data, ignore_point_if_missing)
    IN  IF missing # "none" THEN [exc |-> missing, ret |-> None]
        ELSE IF order = None
        THEN [exc |-> "none", ret |-> [kind |-> "output", unordered |-> AllValues(data)]]
        ELSE LET list == IF order.kind = "str" THEN << order.key >> ELSE order.keys
                 r    == OrderLoop(data, list, 1, Unbound, << >>)
             IN  IF r.exc # "none" THEN [exc |-> r.exc, ret |-> None]
                 ELSE [exc |-> "none",
                       ret |-> [kind |-> "output",
                                parts |-> [n \in 1 .. Len(r.values) |->
                                             Format(r.values[Len(r.values) + 1 - n])]]]

\* SatelliteDataPoint.filter(order, ignore_point_if_missing): the exception it
\* raises ("none" if none) and what it returns. A str order is the list of it.
filter(data, order, ignore_point_if_missing) ==
    LET missing == MissingLoop(data, ignore_point_if_missing)
    IN  IF missing # "none" THEN [exc |-> missing, ret |-> None]
        ELSE IF order = None
        THEN [exc |-> "none", ret |-> [kind |-> "output", unordered |-> AllValues(data)]]
        ELSE LET list == IF order.kind = "str" THEN << order.key >> ELSE order.keys
                 r    == OrderLoop(data, list, 1, Unbound, << >>)
             IN  IF r.exc # "none" THEN [exc |-> r.exc, ret |-> None]
                 ELSE [exc |-> "none",
                       ret |-> [kind |-> "output",
                                parts |-> [n \in 1 .. Len(r.values) |-> Format(r.values[n])]]]

OrderList(keys) == [kind |-> "list", keys |-> keys]
OrderStr(key) == [kind |-> "str", key |-> key]

\* The order arguments tried.
Orders ==
    { None,
      OrderStr(Field("analysed_sst")),
      OrderList(<< Field("lat"), FieldOpt("dummy", "|"), Field("lon") >>),
      OrderList(<< FieldOpt("time", "julian"), Field("analysed_sst"),
                   Field("analysed_sst_smooth") >>),
      OrderList(<< Field("time"), Field("lat") >>),
      OrderList(<< FieldOpt("time", "%Y"), Field("dummy"), FieldOpt("time", "") >>),
      OrderList(<< Field("analysis_error"), Field("sea_ice_fraction") >>) }

\* data_point.filter(order, ignore_point_if_missing) on the point Satellite.data returned.
SatFilter ==
    /\ pc = "sat_returned"
    /\ \E order \in Orders, ignore_point_if_missing \in BOOLEAN :
          LET r == filter(data_point, order, ignore_point_if_missing)
          IN  /\ args' = [op |-> "filter", order |-> order,
                          ignore_point_if_missing |-> ignore_point_if_missing]
              /\ exc' = r.exc
              /\ result' = r.ret
    /\ pc' = "sat_filtered"
    /\ UNCHANGED << nc, nc_open, lat, lon, ranges, lat_index, lon_index, log, data_point >>

\* Satellite.__exit__: self.nc.close()
SatExit ==
    /\ pc \in {"sat_ready", "sat_returned", "sat_filtered", "sat_raised"}
    /\ nc_open' = nc_open - 1
    /\ pc' = "sat_closed"
    /\ UNCHANGED << nc, lat, lon, ranges, lat_index, lon_index, exc, log,
                    data_point, args, result >>

\* ------------------------------------------------------------ print_sat_data.py
\* get_lat_lon_ranges(input_filename), in half units: the extremes of the cell
\* centres, [min(lat), max(lat)], [min(lon), max(lon)].
Cli_get_lat_lon_ranges(g) ==
    << << 2 * SeqMin(g.lat), 2 * SeqMax(g.lat) >>,
       << 2 * SeqMin(g.lon), 2 * SeqMax(g.lon) >> >>

\* abs((nc.variables['lat'] - np.float32(lat))).argmin()
Cli_closest_index(arr, value) ==
    ArgMin([k \in 1 .. Len(arr) |-> Abs(arr[k] - F32(value))])

\* str(x); numpy prints a masked element as "--".
PyStr(value) == IF value = Masked THEN Str("--") ELSE [kind |-> "str", of |-> value]

\* The loop of get_values over variables_to_print, from element k on. A value
\* that is not masked is a numpy scalar, which has no attribute mask.
RECURSIVE ValuesLoop(_, _, _, _, _, _, _)
ValuesLoop(g, names, k, i, j, items, missing) ==
    IF k > Len(names) THEN [exc |-> "none", items |-> items, missing |-> missing]
    ELSE
      LET variable_name == names[k]
      IN  IF variable_name = "lat"
          THEN ValuesLoop(g, names, k + 1, i, j, Append(items, Num(At(g.lat, i), 1)), missing)
          ELSE IF variable_name = "lon"
          THEN IF i \in Indexes(g.lon)
               THEN ValuesLoop(g, names, k + 1, i, j, Append(items, Num(At(g.lon, i), 1)), missing)
               ELSE [exc |-> "IndexError", items |-> items, missing |-> missing]
          ELSE IF variable_name = "time"
          THEN ValuesLoop(g, names, k + 1, i, j, Append(items, TimeVal(g.time)), missing)
          ELSE IF variable_name \notin g.names
          THEN [exc |-> "KeyError", items |-> items, missing |-> missing]
          ELSE LET variable == IF variable_name = "mask" THEN Num(g.mask[i][j], 1)
                               ELSE Cell(g[variable_name], i, j)
               IN  IF ~HasMaskAttr(variable)
                   THEN [exc |-> "AttributeError: mask", items |-> items, missing |-> missing]
                   ELSE ValuesLoop(g, names, k + 1, i, j, Append(items, variable),
                                   missing \/ variable = Masked)

\* The try block of get_values: the exception it raises and what it returns.
get_values_body(g, i, j, variables_to_print, ignore_missing) ==
    LET r == ValuesLoop(g, variables_to_print, 1, i, j, << >>, FALSE)
    IN  IF r.exc # "none" THEN [exc |-> r.exc, ret |-> None]
        ELSE IF r.missing /\ ignore_missing THEN [exc |-> "none", ret |-> None]
        ELSE [exc |-> "none",
              ret |-> [kind |-> "list",
                       items |-> [n \in 1 .. Len(r.items) |-> PyStr(r.items[n])]]]

\* The variables_to_print arguments tried.
VariableLists ==
    { << "lat", "lon" >>,
      << "analysis_error" >>,
      << "lon", "analysed_sst", "analysis_error" >>,
      << "time", "sea_ice_fraction" >> }

\* get_values(input_filename, lat, lon, variables_to_print, ignore_missing) is
\* called; get_closest_lat_lon_indexes calls get_lat_lon_ranges, which opens the file.
CliGetValues ==
    /\ pc = "idle"
    /\ \E la \in Coordinates, lo \in Coordinates : lat' = la /\ lon' = lo
    /\ \E names \in VariableLists, ignore_missing \in BOOLEAN :
          args' = [op |-> "get_values", variables_to_print |-> names,
                   ignore_missing |-> ignore_missing]
    /\ nc_open' = nc_open + 1
    /\ pc' = "cli_ranges"
    /\ UNCHANGED << nc, ranges, lat_index, lon_index, exc, log, data_point, result >>

\* get_lat_lon_ranges: try: return [min, max], [min, max]  finally: nc.close()
CliRanges ==
    /\ pc = "cli_ranges"
    /\ ranges' = Cli_get_lat_lon_ranges(nc)
    /\ nc_open' = nc_open - 1
    /\ pc' = "cli_check_lat"
    /\ UNCHANGED << nc, lat, lon, lat_index, lon_index, exc, log, data_point, args, result >>

\* if not lats[0] <= lat <= lats[1]: raise SatDataException("Latitude ...")
CliCheckLat ==
    /\ pc = "cli_check_lat"
    /\ log' = Append(log, "check_lat")
    /\ IF InRange(ranges[1], lat)
       THEN pc' = "cli_check_lon" /\ exc' = exc
       ELSE pc' = "cli_raised" /\ exc' = "SatDataException: Latitude"
    /\ UNCHANGED << nc, nc_open, lat, lon, ranges, lat_index, lon_index,
                    data_point, args, result >>

\* if not lons[0] <= lon <= lons[1]: raise SatDataException("Longitude ...");
\* then nc = netCDF4.Dataset(input_filename)
CliCheckLon ==
    /\ pc = "cli_check_lon"
    /\ log' = Append(log, "check_lon")
    /\ IF InRange(ranges[2], lon)
       THEN pc' = "cli_search" /\ exc' = exc /\ nc_open' = nc_open + 1
       ELSE pc' = "cli_raised" /\ exc' = "SatDataException: Longitude" /\ nc_open' = nc_open
    /\ UNCHANGED << nc, lat, lon, ranges, lat_index, lon_index, data_point, args, result >>

\* try: return abs(...).argmin(), abs(...).argmin()  finally: nc.close()
CliSearch ==
    /\ pc = "cli_search"
    /\ lat_index' = Cli_closest_index(nc.lat, lat)
    /\ lon_index' = Cli_closest_index(nc.lon, lon)
    /\ log' = log \o << "argmin_lat", "argmin_lon" >>
    /\ nc_open' = nc_open - 1
    /\ pc' = "cli_located"
    /\ UNCHANGED << nc, lat, lon, ranges, exc, data_point, args, result >>

\* get_values: nc = netCDF4.Dataset(input_filename)
CliOpen ==
    /\ pc = "cli_located"
    /\ nc_open' = nc_open + 1
    /\ pc' = "cli_values"
    /\ UNCHANGED << nc, lat, lon, ranges, lat_index, lon_index, exc, log,
                    data_point, args, result >>

\* get_values closing the dataset only when the body raised nothing.
CliValuesClose_NoFinally(n, raised) == IF raised = "none" THEN n - 1 ELSE n

\* The finally clause of get_values, nc.close(): it runs whatever the body
\* raised, and leaves one dataset fewer open.
CliValuesClose(n, raised) == n - 1

\* get_values: try: ... return items_to_print  finally: nc.close()
CliValues ==
    /\ pc = "cli_values"
    /\ LET r == get_values_body(nc, lat_index, lon_index,
                                args.variables_to_print, args.ignore_missing)
       IN  /\ exc' = r.exc
           /\ result' = r.ret
           /\ pc' = IF r.exc = "none" THEN "cli_returned" ELSE "cli_raised"
           /\ nc_open' = CliValuesClose(nc_open, r.exc)
    /\ UNCHANGED << nc, lat, lon, ranges, lat_index, lon_index, log, data_point, args >>

\* ------------------------------------------------------------ file discovery
\* Time is counted in ticks, TicksPerDay of them to a day; a datetime is a
\* number of ticks, a date a number of days, for the days 0 .. MaxDay.
TicksPerDay == 2
MaxDay == 2
Days == 0 .. MaxDay
Datetimes == 0 .. (MaxDay + 1) * TicksPerDay - 1

\* A file name: whether the text before its first "-" parses with
\* "%Y%m%d%H%M%S" and to which datetime, whether it contains "-DMI-L4", and
\* how it ends.
FileName(parses, stamp, marker, suffix) ==
    [parses |-> parses, stamp |-> stamp, marker |-> marker, suffix |-> suffix]

\* The names tried: a daily file for every datetime, one without the marker,
\* a compressed one, and two that start with no timestamp ("README-DMI-L4.nc",
\* "notes.nc").
FileNames ==
    { FileName(TRUE, t, TRUE, ".nc") : t \in Datetimes }
    \cup { FileName(TRUE, 0, FALSE, ".nc"),
           FileName(TRUE, 0, TRUE, ".nc.gz"),
           FileName(FALSE, 0, TRUE, ".nc"),
           FileName(FALSE, 0, FALSE, ".nc") }

\* What os.walk(data_dir) gives: the files list of every directory in turn.
Walks ==
    { << << f >> >> : f \in FileNames }
    \cup { << << f, g >> >> : f \in FileNames, g \in FileNames }
    \cup { << << f >>, << g >> >> : f \in FileNames, g \in FileNames }

\* datetime.date(): the day of a datetime.
date(t) == t \div TicksPerDay

\* The condition of the list comprehension of satellite.py, evaluated left to
\* right: "yes", "no", or the ValueError of strptime.
Sat_Condition(f, date_from_including, date_to_excluding) ==
    IF f.suffix # ".nc" THEN "no"
    ELSE IF ~ f.marker THEN "no"
    ELSE IF ~ f.parses THEN "ValueError"
    ELSE IF date_from_including <= f.stamp /\ f.stamp < date_to_excluding
    THEN "yes" ELSE "no"

\* The condition of the list comprehension of print_sat_data.py.
Cli_Condition(f, date_from, date_to) ==
    IF f.suffix # ".nc" THEN "no"
    ELSE IF ~ f.marker THEN "no"
    ELSE IF ~ f.parses THEN "ValueError"
    ELSE IF date_from <= date(f.stamp) /\ date(f.stamp) <= date_to
    THEN "yes" ELSE "no"

Condition(copy, f, from, to) ==
    IF copy = "sat" THEN Sat_Condition(f, from, to) ELSE Cli_Condition(f, from, to)

\* [f for f in files if ...]: the whole list is built before the first yield.
RECURSIVE Comprehension(_, _, _, _, _, _)
Comprehension(copy, files, k, from, to, names) ==
    IF k > Len(files) THEN [exc |-> "none", names |-> names]
    ELSE LET c == Condition(copy, files[k], from, to)
         IN  IF c = "ValueError" THEN [exc |-> "ValueError", names |-> names]
             ELSE Comprehension(copy, files, k + 1, from, to,
                                IF c = "yes" THEN Append(names, files[k]) ELSE names)

\* for root, dirs, files in os.walk(data_dir): yield the found files of each
\* directory; an exception ends the generator after what it has yielded.
RECURSIVE Walk(_, _, _, _, _, _)
Walk(copy, walk, d, from, to, yielded) ==
    IF d > Len(walk) THEN [exc |-> "none", yielded |-> yielded]
    ELSE LET c == Comprehension(copy, walk[d], 1, from, to, << >>)
         IN  IF c.exc # "none" THEN [exc |-> c.exc, yielded |-> yielded]
             ELSE Walk(copy, walk, d + 1, from, to,
                       yielded \o [n \in 1 .. Len(c.names) |->
                                     [root |-> d, filename |-> c.names[n]]])

Min(a, b) == IF a <= b THEN a ELSE b
Max(a, b) == IF a >= b THEN a ELSE b

\* satellite.get_files_from_datadir: min and max are assigned in one step.
Sat_get_files_from_datadir(data_dir, date_from_including, date_to_excluding) ==
    LET from == Min(date_from_including, date_to_excluding)
        to   == Max(date_from_including, date_to_excluding)
    IN  Walk("sat", data_dir, 1, from, to, << >>)

\* print_sat_data.get_files_from_datadir: date_from is reassigned first, and
\* date_to is then the maximum of the new date_from and date_to.
Cli_get_files_from_datadir(data_dir, date_from, date_to) ==
    LET from == Min(date_from, date_to)
        to   == Max(from, date_to)
    IN  Walk("cli", data_dir, 1, from, to, << >>)

\* list(satellite.get_files_from_datadir(data_dir, a, b)) with two datetimes.
SatGetFiles ==
    /\ pc = "idle"
    /\ \E data_dir \in Walks, a \in Datetimes, b \in Datetimes :
          LET r == Sat_get_files_from_datadir(data_dir, a, b)
          IN  /\ args' = [op |-> "satellite.get_files_from_datadir",
                          data_dir |-> data_dir, date_from |-> a, date_to |-> b]
              /\ exc' = r.exc
              /\ result' = [kind |-> "files", items |-> r.yielded]
    /\ pc' = "sat_listed"
    /\ UNCHANGED << nc, nc_open, lat, lon, ranges, lat_index, lon_index, log, data_point >>

\* list(get_files_from_datadir(args.data_dir, args.date, args.date_to)) of the
\* script, with two dates.
CliGetFiles ==
    /\ pc = "idle"
    /\ \E data_dir \in Walks, a \in Days, b \in Days :
          LET r == Cli_get_files_from_datadir(data_dir, a, b)
          IN  /\ args' = [op |-> "print_sat_data.get_files_from_datadir",
                          data_dir |-> data_dir, date_from |-> a, date_to |-> b]
              /\ exc' = r.exc
              /\ result' = [kind |-> "files", items |-> r.yielded]
    /\ pc' = "cli_listed"
    /\ UNCHANGED << nc, nc_open, lat, lon, ranges, lat_index, lon_index, log, data_point >>

Next ==
    \/ SatInit
    \/ SatData
    \/ SatCheckLat
    \/ SatCheckLon
    \/ SatSearch
    \/ SatFill
    \/ SatFilter
    \/ SatExit
    \/ CliGetValues
    \/ CliRanges
    \/ CliCheckLat
    \/ CliCheckLon
    \/ CliSearch
    \/ CliOpen
    \/ CliValues
    \/ SatGetFiles
    \/ CliGetFiles

Spec == Init /\ [][Next]_vars

\* ================================================================ claims
\* The call has its coordinate.
Called == args.op # "none"
\* The run is a Satellite one / a run of the CLI script.
SatRun == args.op \in {"Satellite.data", "filter"}
CliRun == args.op = "get_values"

\* The covered range of the grid: the extremes of the cell centres, widened by
\* half a cell (spec 3), compared in half units.
CoveredLat(x) ==
    /\ 2 * SeqMin(nc.lat) - nc.geospatial_lat_resolution <= 2 * x
    /\ 2 * x <= 2 * SeqMax(nc.lat) + nc.geospatial_lat_resolution
CoveredLon(x) ==
    /\ 2 * SeqMin(nc.lon) - nc.geospatial_lon_resolution <= 2 * x
    /\ 2 * x <= 2 * SeqMax(nc.lon) + nc.geospatial_lon_resolution

RangeErrors == {"SatDataException: Latitude", "SatDataException: Longitude"}
\* The positions of the log that are nearest-index searches.
Searches == { n \in 1 .. Len(log) : log[n] \in {"argmin_lat", "argmin_lon"} }
\* The call has not finished its two range checks.
Checking == pc \in {"sat_check_lat", "sat_check_lon", "cli_ranges", "cli_check_lat",
                    "cli_check_lon"}

\* C1: in both implementations of locate every nearest-index search comes after
\* the range check of the latitude and that of the longitude, and a call whose
\* coordinate is outside the covered range ends in a range error without any
\* search and without indexes.
C1_ValidatedBeforeSearch ==
    /\ \A n \in Searches :
          /\ \E a \in 1 .. (n - 1) : log[a] = "check_lat"
          /\ \E b \in 1 .. (n - 1) : log[b] = "check_lon"
    /\ (Called /\ ~(CoveredLat(lat) /\ CoveredLon(lon))) =>
          /\ Searches = {}
          /\ lat_index = -1 /\ lon_index = -1
          /\ ~Checking => exc \in RangeErrors

\* C1 witness: a Satellite call with the latitude in range and the longitude out
\* of range has made both checks, raised, and searched nothing.
C1_Witness ==
    /\ pc = "sat_raised" /\ SatRun
    /\ CoveredLat(lat) /\ ~CoveredLon(lon)
    /\ log = << "check_lat", "check_lon" >>
    /\ exc \in RangeErrors

\* C2: Satellite.get_closest_lat_lon_indexes fails with the latitude error when
\* the latitude is outside the covered range, and with the longitude error when
\* only the longitude is; in both cases it returns no indexes.
C2_RangeErrorNamesAxis ==
    SatRun =>
      /\ (~CoveredLat(lat) /\ pc # "sat_check_lat") =>
            exc = "SatDataException: Latitude" /\ lat_index = -1 /\ lon_index = -1
      /\ (CoveredLat(lat) /\ ~CoveredLon(lon) /\ ~Checking) =>
            exc = "SatDataException: Longitude" /\ lat_index = -1 /\ lon_index = -1

\* C2 witness: a latitude just below the covered range (one half unit past the
\* edge or more, inside the cell beyond) has raised the latitude error.
C2_Witness ==
    /\ pc = "sat_raised" /\ SatRun
    /\ 2 * lat < 2 * SeqMin(nc.lat) - nc.geospatial_lat_resolution
    /\ 2 * lat >= 2 * SeqMin(nc.lat) - 2 * nc.geospatial_lat_resolution
    /\ ~CoveredLon(lon)
    /\ exc = "SatDataException: Latitude"

\* The coordinate lies strictly inside the covered range on both axes.
StrictlyInside ==
    /\ 2 * SeqMin(nc.lat) - nc.geospatial_lat_resolution < 2 * lat
    /\ 2 * lat < 2 * SeqMax(nc.lat) + nc.geospatial_lat_resolution
    /\ 2 * SeqMin(nc.lon) - nc.geospatial_lon_resolution < 2 * lon
    /\ 2 * lon < 2 * SeqMax(nc.lon) + nc.geospatial_lon_resolution

\* Index i of arr is at least as close to value as every other index.
Nearest(arr, value, i) ==
    \A k \in Indexes(arr) : Abs(At(arr, i) - value) <= Abs(At(arr, k) - value)

\* C3 (as claimed): for every coordinate strictly inside the covered range both
\* implementations of locate succeed and return on each axis an index that is
\* at least as close to the coordinate as every other index.
C3_InsideIsLocatedNearest ==
    (Called /\ StrictlyInside) =>
      /\ exc \notin RangeErrors
      /\ lat_index >= 0 => Nearest(nc.lat, lat, lat_index)
      /\ lon_index >= 0 => Nearest(nc.lon, lon, lon_index)

\* The indexes of arr whose element is nearest to value.
NearestSet(arr, value) == { i \in Indexes(arr) : Nearest(arr, value, i) }
Lowest(S) == CHOOSE i \in S : \A k \in S : i <= k

\* C4 (as claimed): when several elements are equally near the query value, the
\* index Satellite.get_index_of_closest_float_value returns is the lowest of them.
C4_TieToLowestOfQuery ==
    (SatRun /\ lat_index >= 0) =>
      /\ Cardinality(NearestSet(nc.lat, lat)) > 1 =>
            lat_index = Lowest(NearestSet(nc.lat, lat))
      /\ Cardinality(NearestSet(nc.lon, lon)) > 1 =>
            lon_index = Lowest(NearestSet(nc.lon, lon))

\* C4 (amended): when several elements are equally near the query value as
\* converted to single precision, np.float32(value), the index returned is the
\* lowest of them.
C4_TieToLowestOfFloat32 ==
    (SatRun /\ lat_index >= 0) =>
      /\ Cardinality(NearestSet(nc.lat, F32(lat))) > 1 =>
            lat_index = Lowest(NearestSet(nc.lat, F32(lat)))
      /\ Cardinality(NearestSet(nc.lon, F32(lon))) > 1 =>
            lon_index = Lowest(NearestSet(nc.lon, F32(lon)))

\* C4 witness: the spec's example, scaled: longitudes [0, 3q, 3q, 6q] queried at
\* 3q, two equal elements at distance 0, located at index 1.
C4_Witness ==
    /\ SatRun /\ pc = "sat_located"
    /\ nc.lon = LonRepeated /\ lon = 3 * Quantum
    /\ NearestSet(nc.lon, F32(lon)) = {1, 2}
    /\ lon_index = 1

\* The window of the average around the call's coordinate, from the default radius.
DeltaLat == km_2_lats(DefaultRadiusKm)
DeltaLon == km_2_lons(DefaultRadiusKm, lat)
InWindow(i, j) ==
    /\ lat - DeltaLat <= At(nc.lat, i) /\ At(nc.lat, i) <= lat + DeltaLat
    /\ lon - DeltaLon < At(nc.lon, j) /\ At(nc.lon, j) < lon + DeltaLon
\* The cells the average is claimed to be over: in the window (latitude bounds
\* included, longitude bounds excluded), water (bit 0 of the land/sea mask set),
\* and not missing in analysed_sst.
Qualifying ==
    { c \in Indexes(nc.lat) \X Indexes(nc.lon) :
        /\ InWindow(c[1], c[2])
        /\ nc.mask[c[1]][c[2]] % 2 = 1
        /\ ~nc.analysed_sst[c[1]][c[2]].m }

\* C5: when some cell qualifies, the smoothed value of the returned record is the
\* arithmetic mean of analysed_sst over exactly the qualifying cells (their sum
\* over their number), less the Kelvin offset the caller subtracts.
C5_AverageOverQualifyingCells ==
    (pc = "sat_returned" /\ Qualifying # {}) =>
        data_point["analysed_sst_smooth"] =
            Num(SumOver(nc.analysed_sst, Qualifying)
                    - ZERO_CELCIUS_IN_KELVIN * Cardinality(Qualifying),
                Cardinality(Qualifying))

\* C5 witness: an average over two cells or more, with, inside the window, a land
\* cell and a missing cell left out, a cell on the latitude bound taken in and a
\* column on the longitude bound left out.
C5_Witness ==
    /\ pc = "sat_returned"
    /\ Cardinality(Qualifying) >= 2
    /\ \E c \in Indexes(nc.lat) \X Indexes(nc.lon) :
          InWindow(c[1], c[2]) /\ nc.mask[c[1]][c[2]] % 2 = 0
    /\ \E c \in Indexes(nc.lat) \X Indexes(nc.lon) :
          InWindow(c[1], c[2]) /\ nc.mask[c[1]][c[2]] % 2 = 1
             /\ nc.analysed_sst[c[1]][c[2]].m
    /\ \E c \in Qualifying : Abs(At(nc.lat, c[1]) - lat) = DeltaLat
    /\ \E j \in Indexes(nc.lon) : Abs(At(nc.lon, j) - lon) = DeltaLon

\* C6: when no cell qualifies, the smoothed value of the returned record is the
\* undefined result numpy.ma.masked, also after the Kelvin offset is subtracted,
\* and it is a number whenever some cell qualifies, a mean of 0 included.
C6_EmptyAverageIsMasked ==
    pc = "sat_returned" =>
      /\ Qualifying = {} => data_point["analysed_sst_smooth"] = Masked
      /\ Qualifying # {} => data_point["analysed_sst_smooth"].kind = "num"

\* C6 witness: a window over an all-land grid, nothing qualifies and the record
\* holds masked.
C6_Witness ==
    /\ pc = "sat_returned"
    /\ \A c \in Indexes(nc.lat) \X Indexes(nc.lon) : nc.mask[c[1]][c[2]] % 2 = 0
    /\ \E c \in Indexes(nc.lat) \X Indexes(nc.lon) : InWindow(c[1], c[2])
    /\ Qualifying = {}
    /\ data_point["analysed_sst_smooth"] = Masked

\* C7 (as claimed): filter with ignore_point_if_missing set, on a record with a
\* missing value, returns None and raises nothing.
C7_SkipIfMissingReturnsNone ==
    ( /\ args.op = "filter"
      /\ args.ignore_point_if_missing
      /\ \E key \in DOMAIN data_point : IsMissing(data_point[key]) )
    => (exc = "none" /\ result = None)

\* The data variables Satellite.data reads at [0][lat_index][lon_index].
CellVariables == {"analysed_sst", "analysis_error"}

\* C8 (as claimed): for a variable whose located cell is masked, Satellite.data
\* completes and the record holds for it a value that filter's check takes for
\* missing; analysed_sst included.
C8_MaskedCellIsSentinel ==
    (pc = "sat_returned") =>
        \A name \in CellVariables :
            nc[name][lat_index][lon_index].m => IsMissing(data_point[name])

\* The run is between two functions of the CLI script, or over.
NothingRunning ==
    pc \in {"idle", "sat_closed", "cli_check_lat", "cli_check_lon", "cli_located",
            "cli_returned", "cli_raised"}

\* C9: when no function that opened a dataset is running any more (after
\* Satellite.__exit__, and after each function of the CLI script has returned or
\* raised) no dataset is open; never is more than one open.
C9_NoDatasetLeftOpen ==
    /\ nc_open \in {0, 1}
    /\ NothingRunning => nc_open = 0

\* C9 witness: get_values raised inside its try block (a variable the file has
\* not), after its dataset was opened, and no dataset is open.
C9_Witness ==
    /\ pc = "cli_raised" /\ exc = "KeyError"
    /\ lat_index >= 0
    /\ nc_open = 0

\* A requested variable of the CLI call is masked at the located cell.
RequestedMissing ==
    \E k \in 1 .. Len(args.variables_to_print) :
        /\ args.variables_to_print[k] \in CellVariables
        /\ nc[args.variables_to_print[k]][lat_index][lon_index].m

\* C10 (as claimed): when a requested value is missing, get_values returns None
\* if ignore_missing is false and the list of all the values if it is true.
C10_IgnoreMissingKeepsList ==
    ( /\ CliRun /\ pc \in {"cli_returned", "cli_raised"} /\ lat_index >= 0
      /\ \A k \in 1 .. Len(args.variables_to_print) :
            args.variables_to_print[k] \in nc.names
      /\ RequestedMissing )
    => /\ exc = "none"
       /\ ~args.ignore_missing => result = None
       /\ args.ignore_missing =>
             /\ result.kind = "list"
             /\ Len(result.items) = Len(args.variables_to_print)

\* The CLI call asked for coordinate variables only.
OnlyCoordinatesRequested ==
    \A k \in 1 .. Len(args.variables_to_print) :
        args.variables_to_print[k] \in {"lat", "lon"}

\* C11 (as claimed): in both implementations the reported lat is the element of
\* the latitude array at lat_index and the reported lon is the element of the
\* longitude array at lon_index, whatever the shape of the grid.
C11_CoordinatesFromOwnIndex ==
    /\ pc = "sat_returned" =>
          /\ data_point["lat"] = Num(At(nc.lat, lat_index), 1)
          /\ data_point["lon"] = Num(At(nc.lon, lon_index), 1)
    /\ ( /\ CliRun /\ pc \in {"cli_returned", "cli_raised"} /\ lat_index >= 0
         /\ OnlyCoordinatesRequested )
       => /\ exc = "none"
          /\ result.kind = "list"
          /\ \A k \in 1 .. Len(args.variables_to_print) :
                result.items[k] =
                    IF args.variables_to_print[k] = "lat"
                    THEN PyStr(Num(At(nc.lat, lat_index), 1))
                    ELSE PyStr(Num(At(nc.lon, lon_index), 1))

\* filter was called with a field list (or a single field) and returned.
FilterReturned == pc = "sat_filtered" /\ exc = "none" /\ args.order # None

\* The field specs of the filter call, a single str being the list of it.
FieldList == IF args.order.kind = "str" THEN << args.order.key >> ELSE args.order.keys

\* C12: a filter call with a field list that returns gives one rendered text per
\* field spec, in the order of the list: the k-th text is the stored value of
\* the k-th field, and for a field "dummy:<text>" it is <text> itself, with no
\* look-up in the stored data.
C12_FieldsInListOrder ==
    FilterReturned =>
        /\ result.kind = "output"
        /\ DOMAIN result.parts = 1 .. Len(FieldList)
        /\ \A k \in 1 .. Len(FieldList) :
              /\ (FieldList[k].name = "dummy" /\ FieldList[k].colon)
                    => result.parts[k] = Format(Str(FieldList[k].option))
              /\ FieldList[k].name \notin {"time", "dummy"}
                    => result.parts[k] = Format(data_point[FieldList[k].name])

\* [lat, dummy:|, lon] was rendered as lat, "|", lon at a point whose lat and
\* lon differ.
C12_Witness ==
    /\ FilterReturned
    /\ args.order = OrderList(<< Field("lat"), FieldOpt("dummy", "|"), Field("lon") >>)
    /\ data_point["lat"] # data_point["lon"]
    /\ "dummy" \notin DOMAIN data_point
    /\ result.parts = << Format(data_point["lat"]), Format(Str("|")),
                         Format(data_point["lon"]) >>

\* A listing of the data directory has ended.
Listed == pc \in {"sat_listed", "cli_listed"}

\* The earlier and the later of the two dates of the call, in ticks (a date of
\* the script is the midnight that begins it).
Lo == IF pc = "sat_listed" THEN Min(args.date_from, args.date_to)
      ELSE Min(args.date_from, args.date_to) * TicksPerDay
Hi == IF pc = "sat_listed" THEN Max(args.date_from, args.date_to)
      ELSE Max(args.date_from, args.date_to) * TicksPerDay

\* The name ends with .nc, contains "-DMI-L4" and starts with a timestamp t,
\* lo <= t < hi.
Wanted(f, lo, hi) ==
    /\ f.suffix = ".nc" /\ f.marker /\ f.parses
    /\ lo <= f.stamp /\ f.stamp < hi

\* The wanted files of the directories from d on, in walk order.
RECURSIVE WantedFiles(_, _, _, _)
WantedFiles(walk, d, lo, hi) ==
    IF d > Len(walk) THEN << >>
    ELSE LET names == SelectSeq(walk[d], LAMBDA f : Wanted(f, lo, hi))
         IN  [n \in 1 .. Len(names) |-> [root |-> d, filename |-> names[n]]]
             \o WantedFiles(walk, d + 1, lo, hi)

\* C13 (as claimed): both copies of get_files_from_datadir yield exactly the
\* files whose name ends with .nc, contains "-DMI-L4" and starts with a
\* timestamp t with lo <= t < hi, lo and hi being the earlier and the later of
\* the two dates in whichever order they were passed.
C13_FilesOfHalfOpenRange ==
    Listed => /\ exc = "none"
              /\ result.items = WantedFiles(args.data_dir, 1, Lo, Hi)

\* The same for the files that do start with a timestamp, in satellite.py only.
C13_SatHalfOpenRange ==
    ( /\ pc = "sat_listed"
      /\ \A d \in 1 .. Len(args.data_dir) : \A k \in 1 .. Len(args.data_dir[d]) :
            args.data_dir[d][k].parses )
    => /\ exc = "none"
       /\ result.items = WantedFiles(args.data_dir, 1, Lo, Hi)

\* The format option written in the field spec itself, the empty text if none.
OwnOption(field) == IF field.colon THEN field.option ELSE ""

\* A filter call without the skip flag, all of whose fields are stored (or dummy).
FilterOfStoredFields ==
    /\ pc = "sat_filtered" /\ args.order # None /\ ~ args.ignore_point_if_missing
    /\ \A k \in 1 .. Len(FieldList) :
          FieldList[k].name = "dummy" \/ FieldList[k].name \in DOMAIN data_point

\* C14 (as claimed): the format option filter uses for a field is the one of
\* that field's own spec: time with "julian" is the Julian date, time with
\* another non-empty option uses it as pattern, time without option uses the
\* default pattern and dummy without option is the empty text, without error,
\* whatever specs come before it.
C14_OwnOptionOnly ==
    FilterOfStoredFields =>
        /\ exc = "none"
        /\ result.kind = "output"
        /\ \A k \in 1 .. Len(FieldList) :
              LET own == OwnOption(FieldList[k])
              IN  /\ FieldList[k].name = "dummy" => result.parts[k] = Format(Str(own))
                  /\ FieldList[k].name = "time" =>
                        result.parts[k] =
                            Format(IF own = "julian" THEN date2julian(data_point["time"])
                                   ELSE IF own # ""
                                   THEN strftime(data_point["time"], own)
                                   ELSE strftime(data_point["time"],
                                                 DEFAULT_DATE_FORMAT_MIN))

\* The same, for the calls that return, with the carried-over option excluded:
\* only the fields that write an option of their own.
C14_WrittenOptionIsUsed ==
    FilterReturned =>
        \A k \in 1 .. Len(FieldList) :
            (FieldList[k].colon /\ FieldList[k].name = "time") =>
                result.parts[k] =
                    Format(IF FieldList[k].option = "julian"
                           THEN date2julian(data_point["time"])
                           ELSE IF FieldList[k].option # ""
                           THEN strftime(data_point["time"], FieldList[k].option)
                           ELSE strftime(data_point["time"], DEFAULT_DATE_FORMAT_MIN))

\* C15 (as claimed): the land/sea mask variable "mask" is read only inside the
\* averaging call and is never a field of the record Satellite.data returns.
C15_MaskNeverAField ==
    pc = "sat_returned" => "mask" \notin DOMAIN data_point

\* C15 (amended): the record Satellite.data returns has a field for every
\* variable of the file and for "analysed_sst_smooth"; "mask" is one of them,
\* and its value is the raw land/sea mask value of the located cell.
C15_MaskIsAField ==
    pc = "sat_returned" =>
        /\ DOMAIN data_point = nc.names \cup {"analysed_sst_smooth"}
        /\ "mask" \in DOMAIN data_point
        /\ data_point["mask"] = Num(nc.mask[lat_index][lon_index], 1)

\* A record was returned for a cell that the average counts as land, and its
\* "mask" field holds the raw value of that cell.
C15_Witness ==
    /\ pc = "sat_returned"
    /\ "mask" \in DOMAIN data_point
    /\ ~ SeaMask(nc)[lat_index][lon_index]
    /\ data_point["mask"] = Num(nc.mask[lat_index][lon_index], 1)
    /\ data_point["mask"] # Num(0, 1)

====
